---- MODULE Spec2Model ----
(***************************************************************************)
(* Lamb knowledge-base server: the collection service (create / list /     *)
(* get) and the ingestion pipeline (register file row -> background task   *)
(* -> plugin ingest -> vector-store insert -> status update), over the two *)
(* stores the server keeps: the relational store (collections, file        *)
(* registry) and the vector store (ChromaDB collections and their chunks). *)
(***************************************************************************)
EXTENDS Integers, Sequences, FiniteSets, TLC

VARIABLES
    collections,  \* relational store: the Collection rows, row i has id i
    chroma,       \* vector store: names of the ChromaDB collections
    vectors,      \* vector store: the chunks, [collection, file, index]
    files,        \* relational store: the FileRegistry rows, row i has id i
    tasks,        \* background task of file i: position, documents, exception
    uploads,      \* number of uploaded files written by save_uploaded_file
    events,       \* per file: the pipeline steps taken so far, in order
    history,      \* per file: the statuses its row has had, in order
    resp          \* the answer to the last request

vars == <<collections, chroma, vectors, files, tasks, uploads, events, history, resp>>

-----------------------------------------------------------------------------
(* Bounds of the model *)

MaxCollections == 2
MaxFiles == 1
MaxChunks == 2
MaxRegistered == 2
MaxUpdates == 1
MaxHits == 4
MaxUrls == 2

(* Values *)

None == "none"

KnownNames == <<"kb1", "kb2", "kb3", "kb4">>
Names == {KnownNames[i] : i \in 1..MaxCollections}
Owners == {"alice", "bob"}

\* the owner of a create request: stored with the row, it decides nothing in
\* create_collection or get_collection
CreatingOwners == {"alice"}

\* database.models.Visibility: 'private' or 'public'
Visibility == {"private", "public"}
VisibilityInputs == Visibility \cup {"secret"}

\* database.models.FileStatus
PROCESSING == "processing"
COMPLETED == "completed"
FAILED == "failed"
DELETED == "deleted"
FileStatus == {COMPLETED, PROCESSING, FAILED, DELETED}

\* embeddings_model = {} : no embeddings configuration
EmptyConfig == [vendor |-> None, api_endpoint |-> None]

\* embeddings_model = None in a request
NoModel == EmptyConfig

\* the embeddings_model of a request: absent, or vendor and endpoint as sent
\* (model and apikey are resolved the same way and decide nothing)
EmbeddingsInputs ==
    {NoModel} \cup [vendor : {"default"}, api_endpoint : {"default", "http://e"}]

\* os.getenv("EMBEDDINGS_VENDOR"), os.getenv("EMBEDDINGS_ENDPOINT"): set or unset
EnvVendor == "ollama"
EnvEndpoints == {None, "http://e"}

NoRow ==
    [id |-> 0, name |-> "", owner |-> "", visibility |-> "",
     embeddings_model |-> EmptyConfig, chromadb_uuid |-> FALSE]

NoFile == [id |-> 0, collection_id |-> 0, status |-> "", document_count |-> 0]

NoResponse ==
    [op |-> "none", code |-> 0, detail |-> "", collection |-> NoRow,
     validated |-> FALSE, total |-> 0, items |-> <<>>, file_registry_id |-> 0,
     status |-> "", documents_added |-> 0, success |-> FALSE,
     file |-> NoFile, content |-> <<>>, chunk_count |-> 0,
     top_k |-> 0, threshold |-> 0, hits |-> <<>>, urls |-> <<>>]

Min(a, b) == IF a < b THEN a ELSE b

-----------------------------------------------------------------------------
(* database.service.CollectionService: the relational store's queries *)

DBGetCollectionByName(name) ==
    IF \E i \in DOMAIN collections : collections[i].name = name
    THEN collections[CHOOSE i \in DOMAIN collections : collections[i].name = name]
    ELSE NoRow

DBGetCollection(collection_id) ==
    IF collection_id \in DOMAIN collections THEN collections[collection_id] ELSE NoRow

MatchesFilters(c, owner, visibility_enum) ==
    /\ (owner # None => c.owner = owner)
    /\ (visibility_enum # None => c.visibility = visibility_enum)

DBListCollections(owner, visibility_enum, skip, limit) ==
    LET matching == SelectSeq(collections, LAMBDA c : MatchesFilters(c, owner, visibility_enum))
    IN  SubSeq(matching, skip + 1, Min(skip + limit, Len(matching)))

\* the outcomes of DBCollectionService.create_collection: "stored" creates the
\* row and the ChromaDB collection and records its UUID, "no_uuid" leaves the
\* row without one, "error" raises before anything is created
DBOutcomes == {"stored", "no_uuid", "error"}

NewCollection(name, owner, visibility, embeddings_model, dbOutcome) ==
    [id |-> Len(collections) + 1, name |-> name, owner |-> owner,
     visibility |-> visibility, embeddings_model |-> embeddings_model,
     chromadb_uuid |-> (dbOutcome = "stored")]

DBCreateCollection(row) ==
    /\ collections' = Append(collections, row)
    /\ chroma' = IF row.chromadb_uuid THEN chroma \cup {row.name} ELSE chroma

-----------------------------------------------------------------------------
(* services.collection_service.CollectionService *)

CreateResponse(code, detail, row, validated) ==
    [NoResponse EXCEPT !.op = "create_collection", !.code = code, !.detail = detail,
                       !.collection = row, !.validated = validated]

CreateRefused(code, detail, validated) ==
    /\ resp' = CreateResponse(code, detail, NoRow, validated)
    /\ UNCHANGED <<collections, chroma>>

\* a try block that validates the embeddings whether or not a model is given
CreateAlwaysValidated(name, owner, visibility, embeddings_model) ==
    \E embedOk \in BOOLEAN :
        IF ~embedOk
        THEN CreateRefused(400, "validation_failed", TRUE)
        ELSE LET row == NewCollection(name, owner, visibility, embeddings_model, "stored")
             IN  /\ DBCreateCollection(row)
                 /\ resp' = CreateResponse(201, "created", row, TRUE)

\* a try block that creates the collection first and validates the embeddings after
TryCreateThenValidate(name, owner, visibility, embeddings_model, embedOk) ==
    LET row == NewCollection(name, owner, visibility, embeddings_model, "stored")
    IN  /\ DBCreateCollection(row)
        /\ resp' = IF embedOk THEN CreateResponse(201, "created", row, TRUE)
                   ELSE CreateResponse(400, "validation_failed", NoRow, TRUE)

\* the try block of create_collection for one outcome of the embeddings
\* validation (embedOk: get_embedding_function and the test embedding return):
\* the validation, then the creation in both stores; every exception raised
\* in the block, its own HTTPExceptions included, is caught by "except
\* Exception" and leaves as HTTP 400
TryCreate(name, owner, visibility, embeddings_model, embedOk) ==
    IF ~embedOk
    THEN CreateRefused(400, "validation_failed", TRUE)
    ELSE \E dbOutcome \in DBOutcomes :
            LET stored == IF embeddings_model # NoModel THEN embeddings_model
                          ELSE EmptyConfig
                row == NewCollection(name, owner, visibility, stored, dbOutcome)
                validated == embeddings_model # NoModel
            IN  CASE dbOutcome = "error" ->
                       CreateRefused(400, "failed_to_create", validated)
                  [] dbOutcome = "no_uuid" ->
                       /\ DBCreateCollection(row)
                       /\ resp' = CreateResponse(400, "failed_to_create", NoRow, validated)
                  [] OTHER ->
                       /\ DBCreateCollection(row)
                       /\ resp' = CreateResponse(201, "created", row, validated)

\* the validation runs only when an embeddings_model is given
CreateValidated(name, owner, visibility, embeddings_model) ==
    \E embedOk \in (IF embeddings_model = NoModel THEN {TRUE} ELSE BOOLEAN) :
        TryCreate(name, owner, visibility, embeddings_model, embedOk)

\* a create_collection without the visibility check
ServiceCreateAnyVisibility(name, owner, visibility, embeddings_model) ==
    IF DBGetCollectionByName(name) # NoRow
    THEN CreateRefused(409, "already_exists", FALSE)
    ELSE CreateValidated(name, owner, visibility, embeddings_model)

\* a create_collection that checks the visibility before the name
ServiceCreateVisibilityFirst(name, owner, visibility, embeddings_model) ==
    IF visibility \notin Visibility
    THEN CreateRefused(400, "invalid_visibility", FALSE)
    ELSE IF DBGetCollectionByName(name) # NoRow
    THEN CreateRefused(409, "already_exists", FALSE)
    ELSE CreateValidated(name, owner, visibility, embeddings_model)

\* create_collection: the name check, the visibility check, the try block
ServiceCreateCollection(name, owner, visibility, embeddings_model) ==
    IF DBGetCollectionByName(name) # NoRow
    THEN CreateRefused(409, "already_exists", FALSE)
    ELSE IF visibility \notin Visibility
    THEN CreateRefused(400, "invalid_visibility", FALSE)
    ELSE CreateValidated(name, owner, visibility, embeddings_model)

\* a total counted without the filters
ListTotalUnfiltered(owner, visibility_enum) ==
    Len(collections)

\* list_collections: total = query.count() over the same filters
ListTotal(owner, visibility_enum) ==
    Cardinality({i \in DOMAIN collections :
                    MatchesFilters(collections[i], owner, visibility_enum)})

ServiceListCollections(skip, limit, owner, visibility) ==
    IF visibility # None /\ visibility \notin Visibility
    THEN [NoResponse EXCEPT !.op = "list_collections", !.code = 400,
                            !.detail = "invalid_visibility"]
    ELSE [NoResponse EXCEPT !.op = "list_collections", !.code = 200,
                            !.total = ListTotal(owner, visibility),
                            !.items = DBListCollections(owner, visibility, skip, limit)]

\* a get_collection without the "not found" check
ServiceGetCollectionUnchecked(collection_id) ==
    [NoResponse EXCEPT !.op = "get_collection", !.code = 200,
                       !.collection = DBGetCollection(collection_id)]

ServiceGetCollection(collection_id) ==
    LET collection == DBGetCollection(collection_id)
    IN  IF collection = NoRow
        THEN [NoResponse EXCEPT !.op = "get_collection", !.code = 404,
                                !.detail = "not_found"]
        ELSE [NoResponse EXCEPT !.op = "get_collection", !.code = 200,
                                !.collection = collection]

-----------------------------------------------------------------------------
(* routers.collections_router: the collection endpoints *)

\* create_collection resolves "default" values from the environment
ResolveEmbeddings(embeddings_model, envEndpoint) ==
    [vendor |-> IF embeddings_model.vendor = "default" THEN EnvVendor
                ELSE embeddings_model.vendor,
     api_endpoint |-> IF embeddings_model.api_endpoint \in {None, "default"} THEN envEndpoint
                      ELSE embeddings_model.api_endpoint]

CreateCollection(name, owner, visibility, embeddings_model, envEndpoint) ==
    /\ IF embeddings_model = NoModel
       THEN ServiceCreateCollection(name, owner, visibility, NoModel)
       ELSE LET resolved == ResolveEmbeddings(embeddings_model, envEndpoint)
            IN  IF resolved.vendor = "ollama" /\ resolved.api_endpoint = None
                THEN CreateRefused(400, "configuration_error", FALSE)
                ELSE ServiceCreateCollection(name, owner, visibility, resolved)
    /\ UNCHANGED <<vectors, files, tasks, uploads, events, history>>

ListCollections(skip, limit, owner, visibility) ==
    /\ resp' = ServiceListCollections(skip, limit, owner, visibility)
    /\ UNCHANGED <<collections, chroma, vectors, files, tasks, uploads, events, history>>

GetCollection(collection_id) ==
    /\ resp' = ServiceGetCollection(collection_id)
    /\ UNCHANGED <<collections, chroma, vectors, files, tasks, uploads, events, history>>

-----------------------------------------------------------------------------
(* services.ingestion_service.IngestionService and the plugin registry *)

\* plugins.base.PluginRegistry: the registered ingestion plugins and their kind
PluginKind == [simple_ingest |-> "file-ingest", url_ingest |-> "base-ingest"]
Plugins == DOMAIN PluginKind
PluginInputs == Plugins \cup {"unknown_plugin"}

GetPlugin(plugin_name) == IF plugin_name \in Plugins THEN plugin_name ELSE None

\* a registration in a "pending" status
RegisteredPending == "pending"

\* the status every ingest endpoint registers its row with
RegisteredStatus == PROCESSING

\* register_file: a new FileRegistry row (its paths, names and plugin
\* parameters decide nothing and are left out)
RegisterFile(collection_id, status) ==
    /\ files' = Append(files, [id |-> Len(files) + 1, collection_id |-> collection_id,
                               status |-> status, document_count |-> 0])
    /\ events' = Append(events, <<"register">>)
    /\ history' = Append(history, <<status>>)

\* update_file_status: a direct assignment to the row's status
UpdateFileStatus(f, status, document_count) ==
    /\ files' = [files EXCEPT ![f].status = status, ![f].document_count = document_count]
    /\ history' = [history EXCEPT ![f] = Append(@, status)]

\* the chunks of file f: one per document the plugin returned
Chunks(f, collection_name, documents) ==
    {[collection |-> collection_name, file |-> f, index |-> i] : i \in 1..documents}

\* add_documents_to_collection: all documents go to the collection's ChromaDB collection
AddDocumentsToCollection(f, collection_id, documents) ==
    vectors' = vectors \cup Chunks(f, collections[collection_id].name, documents)

-----------------------------------------------------------------------------
(* routers.collections_router: the ingest endpoints and their background tasks *)

\* _get_and_validate_collection calls CollectionService.get_collection(db,
\* collection_id), whose parameters are (collection_id, db): the database layer
\* is handed the id where it expects the session and the session where it
\* expects the id. That layer is not in the sources; the call either raises
\* (nothing catches it: the request ends as HTTP 500) or still finds the row
\* of that id, as the helper's docstring has it.
LookupOutcomes == {"finds", "raises"}

\* _get_and_validate_collection: 0 when the collection is in both stores, 404
\* when it is missing from one, 500 when the lookup itself raises
GetAndValidateCollection(collection_id, lookup) ==
    IF lookup = "raises" THEN 500
    ELSE IF DBGetCollection(collection_id) = NoRow THEN 404
    ELSE IF DBGetCollection(collection_id).name \notin chroma THEN 404
    ELSE 0

ValidationDetail(code) == IF code = 404 THEN "collection_not_found" ELSE "internal_error"

IngestRefused(op, code, detail) ==
    /\ resp' = [NoResponse EXCEPT !.op = op, !.code = code, !.detail = detail]
    /\ UNCHANGED <<files, tasks, uploads, events, history>>

\* background_tasks.add_task(background_task, ...)
AddTask == tasks' = Append(tasks, [pc |-> "scheduled", documents |-> 0, raised |-> "none", runs |-> 0])

\* an accepted request that runs the ingestion before it answers
IngestAcceptedInline(op, collection_id, saved) ==
    /\ Len(files) < MaxFiles
    /\ uploads' = uploads + saved
    /\ \E documents \in 0..MaxChunks :
        /\ files' = Append(files, [id |-> Len(files) + 1, collection_id |-> collection_id,
                                   status |-> COMPLETED, document_count |-> documents])
        /\ tasks' = Append(tasks, [pc |-> "done", documents |-> documents,
                                   raised |-> "none", runs |-> 1])
        /\ resp' = [NoResponse EXCEPT !.op = op, !.code = 200,
                                      !.collection = DBGetCollection(collection_id),
                                      !.documents_added = documents, !.success = TRUE,
                                      !.file_registry_id = Len(files) + 1,
                                      !.status = "completed"]
    /\ events' = Append(events, <<"register", "ingest", "insert", "completed">>)
    /\ history' = Append(history, <<PROCESSING, COMPLETED>>)

\* the upload is saved (ingest-file only), the row is registered, the task is
\* scheduled, the request is answered
IngestAccepted(op, collection_id, saved) ==
    /\ Len(files) < MaxFiles
    /\ uploads' = uploads + saved
    /\ RegisterFile(collection_id, RegisteredStatus)
    /\ AddTask
    /\ resp' = [NoResponse EXCEPT !.op = op, !.code = 200,
                                  !.collection = DBGetCollection(collection_id),
                                  !.documents_added = 0, !.success = TRUE,
                                  !.file_registry_id = Len(files) + 1,
                                  !.status = "processing"]

\* an ingest-file that saves the upload before it parses plugin_params
IngestFileSavedFirst(collection_id, plugin_name, paramsValid, lookup) ==
    /\ IF GetAndValidateCollection(collection_id, lookup) # 0
       THEN IngestRefused("ingest_file", GetAndValidateCollection(collection_id, lookup),
                          ValidationDetail(GetAndValidateCollection(collection_id, lookup)))
       ELSE IF GetPlugin(plugin_name) = None
       THEN IngestRefused("ingest_file", 404, "plugin_not_found")
       ELSE IF ~paramsValid
       THEN /\ resp' = [NoResponse EXCEPT !.op = "ingest_file", !.code = 400,
                                          !.detail = "invalid_json"]
            /\ uploads' = uploads + 1
            /\ UNCHANGED <<files, tasks, events, history>>
       ELSE IngestAccepted("ingest_file", collection_id, 1)
    /\ UNCHANGED <<collections, chroma, vectors>>

\* an ingest-file that does not look the plugin up before registering
IngestFilePluginUnchecked(collection_id, plugin_name, paramsValid, lookup) ==
    /\ IF GetAndValidateCollection(collection_id, lookup) # 0
       THEN IngestRefused("ingest_file", GetAndValidateCollection(collection_id, lookup),
                          ValidationDetail(GetAndValidateCollection(collection_id, lookup)))
       ELSE IF ~paramsValid
       THEN IngestRefused("ingest_file", 400, "invalid_json")
       ELSE IngestAccepted("ingest_file", collection_id, 1)
    /\ UNCHANGED <<collections, chroma, vectors>>

IngestFileToCollection(collection_id, plugin_name, paramsValid, lookup) ==
    /\ IF GetAndValidateCollection(collection_id, lookup) # 0
       THEN IngestRefused("ingest_file", GetAndValidateCollection(collection_id, lookup),
                          ValidationDetail(GetAndValidateCollection(collection_id, lookup)))
       ELSE IF GetPlugin(plugin_name) = None
       THEN IngestRefused("ingest_file", 404, "plugin_not_found")
       ELSE IF ~paramsValid
       THEN IngestRefused("ingest_file", 400, "invalid_json")
       ELSE IngestAccepted("ingest_file", collection_id, 1)
    /\ UNCHANGED <<collections, chroma, vectors>>

IngestUrlToCollection(collection_id, plugin_name, lookup) ==
    /\ IF GetAndValidateCollection(collection_id, lookup) # 0
       THEN IngestRefused("ingest_url", GetAndValidateCollection(collection_id, lookup),
                          ValidationDetail(GetAndValidateCollection(collection_id, lookup)))
       ELSE IF GetPlugin(plugin_name) = None
       THEN IngestRefused("ingest_url", 404, "plugin_not_found")
       ELSE IngestAccepted("ingest_url", collection_id, 0)
    /\ UNCHANGED <<collections, chroma, vectors>>

IngestBaseToCollection(collection_id, plugin_name, lookup) ==
    /\ IF GetAndValidateCollection(collection_id, lookup) # 0
       THEN IngestRefused("ingest_base", GetAndValidateCollection(collection_id, lookup),
                          ValidationDetail(GetAndValidateCollection(collection_id, lookup)))
       ELSE IF GetPlugin(plugin_name) = None
       THEN IngestRefused("ingest_base", 404, "plugin_not_found")
       ELSE IF PluginKind[plugin_name] # "base-ingest"
       THEN IngestRefused("ingest_base", 400, "not_base_ingest")
       ELSE IngestAccepted("ingest_base", collection_id, 0)
    /\ UNCHANGED <<collections, chroma, vectors>>

\* add_documents: the validation, then the documents go straight to the
\* collection's vector store; no file row is involved (file 0)
AddDocuments(collection_id, documents, lookup) ==
    /\ IF GetAndValidateCollection(collection_id, lookup) # 0
       THEN /\ IngestRefused("add_documents", GetAndValidateCollection(collection_id, lookup),
                             ValidationDetail(GetAndValidateCollection(collection_id, lookup)))
            /\ UNCHANGED vectors
       ELSE /\ AddDocumentsToCollection(0, collection_id, documents)
            /\ resp' = [NoResponse EXCEPT !.op = "add_documents", !.code = 200,
                                          !.collection = DBGetCollection(collection_id),
                                          !.documents_added = documents, !.success = TRUE]
            /\ UNCHANGED <<files, tasks, uploads, events, history>>
    /\ UNCHANGED <<collections, chroma>>

\* query_collection: the validation, then the query plugin reads the
\* collection's vector store
QueryCollection(collection_id, lookup) ==
    /\ IF GetAndValidateCollection(collection_id, lookup) # 0
       THEN IngestRefused("query", GetAndValidateCollection(collection_id, lookup),
                          ValidationDetail(GetAndValidateCollection(collection_id, lookup)))
       ELSE /\ resp' = [NoResponse EXCEPT !.op = "query", !.code = 200,
                                          !.collection = DBGetCollection(collection_id)]
            /\ UNCHANGED <<files, tasks, uploads, events, history>>
    /\ UNCHANGED <<collections, chroma, vectors>>

\* background_task, first call of the try block: the plugin's ingest returns
\* documents or raises
BgIngest(f) ==
    /\ tasks[f].pc = "scheduled"
    /\ events' = [events EXCEPT ![f] = Append(@, "ingest")]
    /\ \/ \E documents \in 0..MaxChunks :
            tasks' = [tasks EXCEPT ![f].pc = "ingested", ![f].documents = documents,
                                   ![f].runs = @ + 1]
       \/ tasks' = [tasks EXCEPT ![f].pc = "failing", ![f].raised = "ingest",
                                 ![f].runs = @ + 1]
    /\ UNCHANGED <<collections, chroma, vectors, files, uploads, history, resp>>

\* a second call whose failure is swallowed: the task goes on as if inserted
BgAddDocumentsSwallowed(f) ==
    /\ tasks[f].pc = "ingested"
    /\ events' = [events EXCEPT ![f] = Append(@, "insert")]
    /\ tasks' = [tasks EXCEPT ![f].pc = "inserted"]
    /\ \/ AddDocumentsToCollection(f, files[f].collection_id, tasks[f].documents)
       \/ UNCHANGED vectors
    /\ UNCHANGED <<collections, chroma, files, uploads, history, resp>>

\* second call: add_documents_to_collection inserts the documents or raises
BgAddDocuments(f) ==
    /\ tasks[f].pc = "ingested"
    /\ events' = [events EXCEPT ![f] = Append(@, "insert")]
    /\ \/ /\ AddDocumentsToCollection(f, files[f].collection_id, tasks[f].documents)
          /\ tasks' = [tasks EXCEPT ![f].pc = "inserted"]
       \/ /\ tasks' = [tasks EXCEPT ![f].pc = "failing", ![f].raised = "insert"]
          /\ UNCHANGED vectors
    /\ UNCHANGED <<collections, chroma, files, uploads, history, resp>>

\* a status update to COMPLETED placed before the insert
BgUpdateCompletedEarly(f) ==
    /\ tasks[f].pc \in {"ingested", "inserted"}
    /\ UpdateFileStatus(f, COMPLETED, tasks[f].documents)
    /\ tasks' = [tasks EXCEPT ![f].pc = "done"]
    /\ events' = [events EXCEPT ![f] = Append(@, "completed")]
    /\ UNCHANGED <<collections, chroma, vectors, uploads, resp>>

\* third call: update_file_status(COMPLETED, len(documents)) assigns or raises
BgUpdateCompleted(f) ==
    /\ tasks[f].pc = "inserted"
    /\ \/ /\ UpdateFileStatus(f, COMPLETED, tasks[f].documents)
          /\ tasks' = [tasks EXCEPT ![f].pc = "done"]
          /\ events' = [events EXCEPT ![f] = Append(@, "completed")]
       \/ /\ tasks' = [tasks EXCEPT ![f].pc = "failing", ![f].raised = "update"]
          /\ UNCHANGED <<files, history, events>>
    /\ UNCHANGED <<collections, chroma, vectors, uploads, resp>>

\* an except block that schedules the task again after marking the file FAILED
BgUpdateFailedRetry(f) ==
    /\ tasks[f].pc = "failing"
    /\ UpdateFileStatus(f, FAILED, files[f].document_count)
    /\ tasks' = [tasks EXCEPT ![f].pc = "scheduled"]
    /\ events' = [events EXCEPT ![f] = Append(@, "failed")]
    /\ UNCHANGED <<collections, chroma, vectors, uploads, resp>>

\* the except block: update_file_status(FAILED) assigns, or raises and the
\* exception leaves the task
BgUpdateFailed(f) ==
    /\ tasks[f].pc = "failing"
    /\ \/ /\ UpdateFileStatus(f, FAILED, files[f].document_count)
          /\ tasks' = [tasks EXCEPT ![f].pc = "done"]
          /\ events' = [events EXCEPT ![f] = Append(@, "failed")]
       \/ /\ tasks' = [tasks EXCEPT ![f].pc = "crashed"]
          /\ UNCHANGED <<files, history, events>>
    /\ UNCHANGED <<collections, chroma, vectors, uploads, resp>>

-----------------------------------------------------------------------------
(* The collection service on an empty database *)

Init ==
    /\ collections = <<>>
    /\ chroma = {}
    /\ vectors = {}
    /\ files = <<>>
    /\ tasks = <<>>
    /\ uploads = 0
    /\ events = <<>>
    /\ history = <<>>
    /\ resp = NoResponse

\* POST /collections/ ; the environment is read only when a model is given
CreateCollectionStep ==
    \E name \in Names, owner \in CreatingOwners, visibility \in VisibilityInputs,
       embeddings_model \in EmbeddingsInputs :
        \E envEndpoint \in (IF embeddings_model = NoModel THEN {None} ELSE EnvEndpoints) :
            CreateCollection(name, owner, visibility, embeddings_model, envEndpoint)

\* GET /collections/?skip=&limit=&owner=&visibility=
ListCollectionsStep ==
    \E skip \in 0..MaxCollections, limit \in 1..MaxCollections,
       owner \in Owners \cup {None}, visibility \in VisibilityInputs \cup {None} :
        ListCollections(skip, limit, owner, visibility)

\* GET /collections/{collection_id}
GetCollectionStep ==
    \E collection_id \in 0..(MaxCollections + 1) : GetCollection(collection_id)

NextCollections ==
    \/ CreateCollectionStep
    \/ GetCollectionStep

CollectionSpec == Init /\ [][NextCollections]_vars

\* the stores a listing can find: up to MaxCollections collections of any
\* owner and visibility, their ids in creation order
ListedCollections ==
    UNION {{c \in [1..n -> [id : 1..n, name : Names, owner : Owners,
                            visibility : Visibility, embeddings_model : {EmptyConfig},
                            chromadb_uuid : {TRUE}]] :
                \A i \in 1..n : c[i].id = i /\ c[i].name = KnownNames[i]} :
           n \in 0..MaxCollections}

InitListing ==
    /\ collections \in ListedCollections
    /\ chroma = {collections[i].name : i \in DOMAIN collections}
    /\ vectors = {}
    /\ files = <<>>
    /\ tasks = <<>>
    /\ uploads = 0
    /\ events = <<>>
    /\ history = <<>>
    /\ resp = NoResponse

NextListing == ListCollectionsStep

ListingSpec == InitListing /\ [][NextListing]_vars

-----------------------------------------------------------------------------
(* The ingestion pipeline on a database that holds collections *)

\* two collections in both stores and one left without its ChromaDB collection
PersistedCollections ==
    << [id |-> 1, name |-> "kb1", owner |-> "alice", visibility |-> "private",
        embeddings_model |-> EmptyConfig, chromadb_uuid |-> TRUE],
       [id |-> 2, name |-> "kb2", owner |-> "bob", visibility |-> "public",
        embeddings_model |-> EmptyConfig, chromadb_uuid |-> TRUE],
       [id |-> 3, name |-> "kb3", owner |-> "alice", visibility |-> "public",
        embeddings_model |-> EmptyConfig, chromadb_uuid |-> FALSE] >>

InitIngest ==
    /\ collections = PersistedCollections
    /\ chroma = {"kb1", "kb2"}
    /\ vectors = {}
    /\ files = <<>>
    /\ tasks = <<>>
    /\ uploads = 0
    /\ events = <<>>
    /\ history = <<>>
    /\ resp = NoResponse

\* the ids of the stored collections and one that no collection has
CollectionIds == 1..(Len(collections) + 1)

\* POST /collections/{collection_id}/ingest-file
IngestFileStep ==
    \E collection_id \in CollectionIds, plugin_name \in PluginInputs, paramsValid \in BOOLEAN,
       lookup \in LookupOutcomes :
        IngestFileToCollection(collection_id, plugin_name, paramsValid, lookup)

\* POST /collections/{collection_id}/ingest-url
IngestUrlStep ==
    \E collection_id \in CollectionIds, plugin_name \in PluginInputs, lookup \in LookupOutcomes :
        IngestUrlToCollection(collection_id, plugin_name, lookup)

\* POST /collections/{collection_id}/ingest-base
IngestBaseStep ==
    \E collection_id \in CollectionIds, plugin_name \in PluginInputs, lookup \in LookupOutcomes :
        IngestBaseToCollection(collection_id, plugin_name, lookup)

\* POST /collections/{collection_id}/documents
AddDocumentsStep ==
    \E collection_id \in CollectionIds, documents \in 0..MaxChunks, lookup \in LookupOutcomes :
        AddDocuments(collection_id, documents, lookup)

\* POST /collections/{collection_id}/query
QueryCollectionStep ==
    \E collection_id \in CollectionIds, lookup \in LookupOutcomes :
        QueryCollection(collection_id, lookup)

BgIngestStep == \E f \in DOMAIN files : BgIngest(f)
BgAddDocumentsStep == \E f \in DOMAIN files : BgAddDocuments(f)
BgUpdateCompletedStep == \E f \in DOMAIN files : BgUpdateCompleted(f)
BgUpdateFailedStep == \E f \in DOMAIN files : BgUpdateFailed(f)

NextIngest ==
    \/ IngestFileStep
    \/ IngestUrlStep
    \/ IngestBaseStep
    \/ BgIngestStep
    \/ BgAddDocumentsStep
    \/ BgUpdateCompletedStep
    \/ BgUpdateFailedStep

IngestSpec == InitIngest /\ [][NextIngest]_vars

\* the requests that start with _get_and_validate_collection
NextValidated ==
    \/ IngestFileStep
    \/ IngestUrlStep
    \/ IngestBaseStep
    \/ AddDocumentsStep
    \/ QueryCollectionStep

ValidatedSpec == InitIngest /\ [][NextValidated]_vars

-----------------------------------------------------------------------------
(* services.file_service.FileService and routers.files_router *)

\* database.models.FileStatus: member names and their values
FileStatusMembers ==
    [COMPLETED |-> COMPLETED, PROCESSING |-> PROCESSING, FAILED |-> FAILED,
     DELETED |-> DELETED]

\* status texts of a request, and str.upper() on them
StatusTexts == {"completed", "Completed", "FAILED", "processing", "bogus"}
Upper ==
    [completed |-> "COMPLETED", Completed |-> "COMPLETED", FAILED |-> "FAILED",
     processing |-> "PROCESSING", bogus |-> "BOGUS",
     COMPLETED |-> "COMPLETED", PROCESSING |-> "PROCESSING", BOGUS |-> "BOGUS"]

FileResponse(op, code, detail) ==
    [NoResponse EXCEPT !.op = op, !.code = code, !.detail = detail]

FileRefused(op, code, detail) ==
    /\ resp' = FileResponse(op, code, detail)
    /\ UNCHANGED <<files, history>>

\* FileService.list_files(collection_id, db, status): the collection must
\* exist, FileStatus(status) looks the status up by value
FileServiceListFiles(op, collection_id, status) ==
    IF DBGetCollection(collection_id) = NoRow
    THEN FileRefused(op, 404, "collection_not_found")
    ELSE IF status # None /\ status \notin FileStatus
    THEN FileRefused(op, 400, "invalid_status")
    ELSE /\ resp' = [FileResponse(op, 200, "") EXCEPT
                        !.items = SelectSeq(files, LAMBDA f :
                                      /\ f.collection_id = collection_id
                                      /\ (status # None => f.status = status))]
         /\ UNCHANGED <<files, history>>

\* FileService.update_file_status(file_id, status, db): FileStatus(status)
\* looks the status up by value, IngestionService.update_file_status returns
\* nothing for an id that is not registered
FileServiceUpdateFileStatus(op, file_id, status) ==
    IF status \notin FileStatus
    THEN FileRefused(op, 400, "invalid_status")
    ELSE IF file_id \notin DOMAIN files
    THEN FileRefused(op, 404, "file_not_found")
    ELSE /\ UpdateFileStatus(file_id, status, files[file_id].document_count)
         /\ resp' = [FileResponse(op, 200, "") EXCEPT
                        !.file = [files[file_id] EXCEPT !.status = status]]

\* what chroma_collection.get returns for a file: chunks in the order the
\* store chooses, each with its text and its metadata: no metadata, a
\* metadata without chunk_index, or a metadata with a chunk_index
NoMetadata == -2
NoChunkIndex == -1
ChunkTexts == {"a", "b"}
ChunkMetadatas == {NoMetadata, NoChunkIndex} \cup (0..(MaxChunks - 1))
StoreResults ==
    UNION {[1..n -> [text : ChunkTexts, chunk_index : ChunkMetadatas]] : n \in 0..MaxChunks}

\* chunk_docs: the chunks that have metadata, index = chunk_index or the
\* position in the store's answer (enumerate counts from 0)
ChunkDocs(results) ==
    LET kept == {i \in DOMAIN results : results[i].chunk_index # NoMetadata}
        docOf(i) == [text |-> results[i].text, pos |-> i,
                     index |-> IF results[i].chunk_index = NoChunkIndex THEN i - 1
                               ELSE results[i].chunk_index]
    IN  {docOf(i) : i \in kept}

\* chunk_docs.sort(key = index): ascending index, equal indexes in the order
\* of the store's answer (the sort is stable)
RECURSIVE SortedDocs(_)
SortedDocs(docs) ==
    IF docs = {} THEN <<>>
    ELSE LET first == CHOOSE d \in docs :
                        \A e \in docs : \/ d.index < e.index
                                         \/ (d.index = e.index /\ d.pos <= e.pos)
         IN  <<first>> \o SortedDocs(docs \ {first})

\* separator.join(texts): the texts with the separator between them
RECURSIVE Join(_, _)
Join(separator, docs) ==
    IF Len(docs) = 0 THEN <<>>
    ELSE IF Len(docs) = 1 THEN <<docs[1].text>>
    ELSE <<docs[1].text, separator>> \o Join(separator, Tail(docs))

\* the separator of FileService.get_file_content: a backslash and an n
FileServiceSeparator == "\\n"

\* the separator of CollectionsService.get_file_content: a newline character
Newline == "\n"

\* FileService.get_file_content(file_id, db) for the store's answer `results`
FileServiceGetFileContent(op, file_id, results) ==
    /\ IF file_id \notin DOMAIN files
       THEN resp' = FileResponse(op, 404, "file_not_found")
       ELSE IF DBGetCollection(files[file_id].collection_id) = NoRow
       THEN resp' = FileResponse(op, 404, "collection_not_found")
       ELSE IF Len(results) = 0
       THEN resp' = FileResponse(op, 404, "no_content")
       ELSE resp' = [FileResponse(op, 200, "") EXCEPT
                        !.content = Join(FileServiceSeparator, SortedDocs(ChunkDocs(results))),
                        !.chunk_count = Cardinality(ChunkDocs(results))]
    /\ UNCHANGED <<files, history>>

\* the attributes of services.collection_service.CollectionService, the class
\* the files router imports
CollectionServiceMethods == {"create_collection", "list_collections", "get_collection"}

\* an exception no handler catches: the request ends as HTTP 500
Unhandled(op) == FileRefused(op, 500, "internal_error")

\* list_files_in_collection: CollectionService.list_files is no attribute of
\* the imported class
ListFilesInCollection(collection_id, status) ==
    /\ IF "list_files" \notin CollectionServiceMethods
       THEN Unhandled("list_files")
       ELSE FileServiceListFiles("list_files", collection_id, status)
    /\ UNCHANGED <<collections, chroma, vectors, tasks, uploads, events>>

\* an endpoint that hands the status text on to FileService.update_file_status
RouterUpdateFileStatusByValue(file_id, status) ==
    /\ FileServiceUpdateFileStatus("update_file_status", file_id, status)
    /\ UNCHANGED <<collections, chroma, vectors, tasks, uploads, events>>

\* update_file_status (PUT /files/{file_id}/status): the parameter `status`
\* hides fastapi's status module, so raising the 400 fails on
\* status.HTTP_400_BAD_REQUEST; a member name is passed on in upper case to
\* CollectionService.update_file_status, which is no attribute of the class
RouterUpdateFileStatus(file_id, status) ==
    /\ IF Upper[status] \notin DOMAIN FileStatusMembers
       THEN Unhandled("update_file_status")
       ELSE IF "update_file_status" \notin CollectionServiceMethods
       THEN Unhandled("update_file_status")
       ELSE FileServiceUpdateFileStatus("update_file_status", file_id, Upper[status])
    /\ UNCHANGED <<collections, chroma, vectors, tasks, uploads, events>>

\* get_file_content: the AttributeError is caught by "except Exception" and
\* raised again as HTTP 500
GetFileContent(file_id, results) ==
    /\ IF "get_file_content" \notin CollectionServiceMethods
       THEN FileRefused("get_file_content", 500, "failed_to_retrieve")
       ELSE FileServiceGetFileContent("get_file_content", file_id, results)
    /\ UNCHANGED <<collections, chroma, vectors, tasks, uploads, events>>

\* the file registries the requests can find: up to MaxRegistered rows of the
\* two collections that are in both stores
RegisteredFiles ==
    UNION {{r \in [1..n -> [id : 1..n, collection_id : {1, 2},
                            status : {PROCESSING, COMPLETED, FAILED},
                            document_count : {0}]] :
                \A i \in 1..n : r[i].id = i} : n \in 0..MaxRegistered}

InitFiles ==
    /\ collections = PersistedCollections
    /\ chroma = {"kb1", "kb2"}
    /\ vectors = {}
    /\ files \in RegisteredFiles
    /\ tasks = <<>>
    /\ uploads = 0
    /\ events = [i \in DOMAIN files |-> <<"register">>]
    /\ history = [i \in DOMAIN files |-> <<files[i].status>>]
    /\ resp = NoResponse

FileIds == 1..(MaxRegistered + 1)

\* the status updates of one file are counted up to MaxUpdates
Updatable(file_id) ==
    file_id \in DOMAIN files => Len(history[file_id]) <= MaxUpdates

\* GET /files/collection/{collection_id}?status=
ListFilesStep ==
    \E collection_id \in CollectionIds, status \in StatusTexts \cup {None} :
        ListFilesInCollection(collection_id, status)

\* PUT /files/{file_id}/status?status=
UpdateFileStatusStep ==
    \E file_id \in FileIds, status \in StatusTexts :
        RouterUpdateFileStatus(file_id, status)

\* GET /files/{file_id}/content
GetFileContentStep ==
    \E file_id \in FileIds, results \in StoreResults : GetFileContent(file_id, results)

\* direct calls of the FileService methods
FileServiceListFilesStep ==
    \E collection_id \in CollectionIds, status \in StatusTexts \cup {None} :
        /\ FileServiceListFiles("FileService.list_files", collection_id, status)
        /\ UNCHANGED <<collections, chroma, vectors, tasks, uploads, events>>

FileServiceUpdateFileStatusStep ==
    \E file_id \in FileIds, status \in StatusTexts :
        /\ Updatable(file_id)
        /\ FileServiceUpdateFileStatus("FileService.update_file_status", file_id, status)
        /\ UNCHANGED <<collections, chroma, vectors, tasks, uploads, events>>

FileServiceGetFileContentStep ==
    \E file_id \in FileIds, results \in StoreResults :
        /\ FileServiceGetFileContent("FileService.get_file_content", file_id, results)
        /\ UNCHANGED <<collections, chroma, vectors, tasks, uploads, events>>

NextFiles ==
    \/ ListFilesStep
    \/ UpdateFileStatusStep
    \/ GetFileContentStep
    \/ FileServiceListFilesStep
    \/ FileServiceUpdateFileStatusStep
    \/ FileServiceGetFileContentStep

FilesSpec == InitFiles /\ [][NextFiles]_vars

\* the background tasks of ingested files together with the status requests
NextStatus ==
    \/ IngestFileStep
    \/ BgIngestStep
    \/ BgAddDocumentsStep
    \/ BgUpdateCompletedStep
    \/ BgUpdateFailedStep
    \/ UpdateFileStatusStep

StatusSpec == InitIngest /\ [][NextStatus]_vars

-----------------------------------------------------------------------------
(* plugins.simple_query.SimpleQueryPlugin *)

\* similarities, distances and thresholds are counted in tenths: Unit is 1.0
Unit == 10

\* get_parameters: the defaults of top_k and threshold
DefaultTopK == 5
DefaultThreshold == 0

TopKs == {1, 2, DefaultTopK}
Thresholds == {DefaultThreshold, 5, Unit}
Distances == {0, Unit, 15}
QueryTexts == {"", " ", "q"}

\* query_text.strip()
Strip(query_text) == IF query_text = " " THEN "" ELSE query_text

\* chroma_collection.query(query_texts, n_results): at most n_results hits,
\* nearest first or in any order; hit i is document i with its distance
StoreAnswers(n_results) ==
    UNION {{[i \in 1..k |-> [data |-> i, distance |-> d[i]]] : d \in [1..k -> Distances]} :
                k \in 0..(IF n_results < MaxHits THEN n_results ELSE MaxHits)}

\* similarity = 1.0 - distance
Similarity(distance) == Unit - distance

\* the loop over results["documents"][0]: a hit is appended when its
\* similarity reaches the threshold
Formatted(results) ==
    [i \in DOMAIN results |-> [similarity |-> Similarity(results[i].distance),
                               data |-> results[i].data]]

\* a loop that appends only the hits whose similarity exceeds the threshold
FormatResultsStrict(results, threshold) ==
    SelectSeq(Formatted(results), LAMBDA hit : hit.similarity > threshold)

FormatResults(results, threshold) ==
    SelectSeq(Formatted(results), LAMBDA hit : hit.similarity >= threshold)

PluginRaised(detail) ==
    resp' = [NoResponse EXCEPT !.op = "simple_query", !.status = "raised", !.detail = detail]

\* SimpleQueryPlugin.query(collection_id, query_text, top_k=, threshold=, db=)
SimpleQuery(collection_id, query_text, top_k, threshold, db, results) ==
    /\ IF ~db
       THEN PluginRaised("db_required")
       ELSE IF query_text = "" \/ Strip(query_text) = ""
       THEN PluginRaised("empty_query")
       ELSE IF DBGetCollection(collection_id) = NoRow
       THEN PluginRaised("collection_not_found")
       ELSE IF DBGetCollection(collection_id).name \notin chroma
       THEN PluginRaised("not_in_chromadb")
       ELSE resp' = [NoResponse EXCEPT !.op = "simple_query", !.status = "returned",
                                       !.top_k = top_k, !.threshold = threshold,
                                       !.hits = results,
                                       !.items = FormatResults(results, threshold)]
    /\ UNCHANGED <<collections, chroma, vectors, files, tasks, uploads, events, history>>

\* the call gets as far as chroma_collection.query
ReachesStore(collection_id, query_text, db) ==
    /\ db
    /\ Strip(query_text) # ""
    /\ DBGetCollection(collection_id) # NoRow
    /\ DBGetCollection(collection_id).name \in chroma

\* a call of the plugin; the store answers only the calls that reach it
SimpleQueryStep ==
    \E collection_id \in CollectionIds, query_text \in QueryTexts, top_k \in TopKs,
       threshold \in Thresholds, db \in BOOLEAN :
        \E results \in (IF ReachesStore(collection_id, query_text, db)
                         THEN StoreAnswers(top_k) ELSE {<<>>}) :
            SimpleQuery(collection_id, query_text, top_k, threshold, db, results)

NextQuery == SimpleQueryStep

QuerySpec == InitIngest /\ [][NextQuery]_vars

-----------------------------------------------------------------------------
(* plugins.url_ingest.URLIngestPlugin *)

Urls == {"http://u", "http://v"}

\* kwargs.get("urls", []): the URLs of a request, possibly one URL twice
UrlLists == UNION {[1..n -> Urls] : n \in 0..MaxUrls}

SupportedSplitters == {"RecursiveCharacterTextSplitter", "TokenTextSplitter"}
SplitterTypes == SupportedSplitters \cup {"OtherSplitter"}

\* f"langchain_{splitter_type.lower()}"
ChunkingStrategy ==
    [RecursiveCharacterTextSplitter |-> "langchain_recursivecharactertextsplitter",
     TokenTextSplitter |-> "langchain_tokentextsplitter",
     OtherSplitter |-> "langchain_othersplitter"]

\* what happens to one result of the batch: text_splitter.split_text returns
\* so many chunks (0: no markdown or empty content) or the processing raises
SplitRaises == -1
SplitOutcomes == {SplitRaises} \cup (0..MaxChunks)

\* batch_result["data"] of a completed batch for the requested URLs: result i
\* is the page of urls[i]
BatchData(urls) ==
    {[i \in DOMAIN urls |-> [page |-> urls[i], pieces |-> o[i]]] : o \in [DOMAIN urls -> SplitOutcomes]}

BatchStatuses == {"completed", "failed"}

\* the documents of one result: chunk j of the page with its metadata
ResultDocumentsOneBased(url, result, splitter_type) ==
    IF result.pieces <= 0 THEN <<>>
    ELSE [j \in 1..result.pieces |->
            [text |-> [page |-> result.page, piece |-> j - 1],
             source |-> url, chunk_index |-> j, chunk_count |-> result.pieces,
             chunking_strategy |-> ChunkingStrategy[splitter_type]]]

ResultDocuments(url, result, splitter_type) ==
    IF result.pieces <= 0 THEN <<>>
    ELSE [j \in 1..result.pieces |->
            [text |-> [page |-> result.page, piece |-> j - 1],
             source |-> url, chunk_index |-> j - 1, chunk_count |-> result.pieces,
             chunking_strategy |-> ChunkingStrategy[splitter_type]]]

\* the loop over batch_result["data"] from result i on: all_documents
RECURSIVE AllDocuments(_, _, _, _)
AllDocuments(urls, data, splitter_type, i) ==
    IF i > Len(data) THEN <<>>
    ELSE ResultDocuments(IF i <= Len(urls) THEN urls[i] ELSE "unknown_url",
                         data[i], splitter_type)
            \o AllDocuments(urls, data, splitter_type, i + 1)

IngestRaised(detail) ==
    resp' = [NoResponse EXCEPT !.op = "url_ingest", !.status = "raised", !.detail = detail]

\* URLIngestPlugin.ingest(file_path, urls=, splitter_type=)
UrlIngest(firecrawl_app, urls, splitter_type, batch_status, data) ==
    /\ IF ~firecrawl_app
       THEN IngestRaised("not_initialized")
       ELSE IF Len(urls) = 0
       THEN IngestRaised("no_urls")
       ELSE IF splitter_type \notin SupportedSplitters
       THEN IngestRaised("unsupported_splitter")
       ELSE IF batch_status # "completed"
       THEN IngestRaised("batch_failed")
       ELSE resp' = [NoResponse EXCEPT !.op = "url_ingest", !.status = "returned",
                                       !.urls = urls, !.hits = data,
                                       !.items = AllDocuments(urls, data, splitter_type, 1)]
    /\ UNCHANGED <<collections, chroma, vectors, files, tasks, uploads, events, history>>

\* the call gets as far as processing the results of a completed batch
ReachesBatch(firecrawl_app, urls, splitter_type, batch_status) ==
    /\ firecrawl_app
    /\ Len(urls) > 0
    /\ splitter_type \in SupportedSplitters
    /\ batch_status = "completed"

\* a call of the plugin; only a completed batch has results
UrlIngestStep ==
    \E firecrawl_app \in BOOLEAN, urls \in UrlLists, splitter_type \in SplitterTypes,
       batch_status \in BatchStatuses :
        \E data \in (IF ReachesBatch(firecrawl_app, urls, splitter_type, batch_status)
                      THEN BatchData(urls) ELSE {<<>>}) :
            UrlIngest(firecrawl_app, urls, splitter_type, batch_status, data)

NextUrlIngest == UrlIngestStep

UrlIngestSpec == InitIngest /\ [][NextUrlIngest]_vars

-----------------------------------------------------------------------------
(* The whole server *)

Next ==
    \/ CreateCollectionStep
    \/ ListCollectionsStep
    \/ GetCollectionStep
    \/ NextIngest
    \/ AddDocumentsStep
    \/ QueryCollectionStep
    \/ SimpleQueryStep
    \/ UrlIngestStep
    \/ ListFilesStep
    \/ UpdateFileStatusStep
    \/ GetFileContentStep

Spec == Init /\ [][Next]_vars

-----------------------------------------------------------------------------
(* Properties of the ingestion pipeline *)

IsPrefix(s, t) == Len(s) <= Len(t) /\ \A k \in 1..Len(s) : s[k] = t[k]

Occurs(e, s) == \E k \in 1..Len(s) : s[k] = e

\* the task of file f has ended: it returned, or an exception left it
TaskEnded(f) == tasks[f].pc \in {"done", "crashed"}

\* C1: for every ingest request the steps happen in this order and in no other:
\* the row is registered, the task invokes the plugin's ingest, the documents
\* are handed to the vector-store insert, the status is updated; no chunk is in
\* the vector store before its file's row exists, and no file is COMPLETED
\* before its insert.
C1_PipelineOrder ==
    /\ DOMAIN events = DOMAIN files
    /\ DOMAIN tasks = DOMAIN files
    /\ \A f \in DOMAIN files :
        /\ \/ IsPrefix(events[f], <<"register", "ingest", "insert", "completed">>)
           \/ IsPrefix(events[f], <<"register", "ingest", "insert", "failed">>)
           \/ IsPrefix(events[f], <<"register", "ingest", "failed">>)
        /\ Len(events[f]) >= 1
        /\ files[f].status = COMPLETED => Occurs("insert", events[f])
        /\ tasks[f].pc # "scheduled" => Occurs("ingest", events[f])
    /\ \A v \in vectors : v.file \in DOMAIN files /\ Occurs("insert", events[v.file])

\* C1 witness: a file went through all four steps and its chunks are stored
C1_Witness ==
    \E f \in DOMAIN files :
        /\ events[f] = <<"register", "ingest", "insert", "completed">>
        /\ \E v \in vectors : v.file = f

\* the status the overview names before "processing"
PENDING == "pending"

\* C2 as stated: the status history of every row follows
\* pending -> processing -> (completed or failed).
C2_PendingProcessingFinal ==
    \A f \in DOMAIN files :
        \/ IsPrefix(history[f], <<PENDING, PROCESSING, COMPLETED>>)
        \/ IsPrefix(history[f], <<PENDING, PROCESSING, FAILED>>)

\* C2 amended: the status history of every row follows
\* processing -> (completed or failed): a row is registered as processing (it
\* is never pending) and its status then changes at most once, to completed or
\* to failed.
C2_ProcessingFinal ==
    /\ DOMAIN history = DOMAIN files
    /\ \A f \in DOMAIN files :
        /\ history[f] \in {<<PROCESSING>>, <<PROCESSING, COMPLETED>>, <<PROCESSING, FAILED>>}
        /\ files[f].status = history[f][Len(history[f])]
        /\ files[f].status \in FileStatus

\* C2 witness: a row that was processing and is now failed
C2_Witness ==
    \E f \in DOMAIN files :
        /\ history[f] = <<PROCESSING, FAILED>>
        /\ files[f].status = FAILED

\* C3: when the task of a file has ended, the file is COMPLETED if the plugin's
\* ingest and the vector-store insert both succeeded and FAILED if either
\* raised; it is never still PROCESSING.
C3_TaskLeavesProcessing ==
    \A f \in DOMAIN files :
        TaskEnded(f)
        => files[f].status = IF tasks[f].raised \in {"ingest", "insert"} THEN FAILED
                             ELSE COMPLETED

\* C4: a file the pipeline set to COMPLETED has every chunk its plugin's
\* ingest returned in the vector store, under its collection, and its
\* document count is the number of those chunks.
C4_CompletedHasChunks ==
    \A f \in DOMAIN files :
        files[f].status = COMPLETED
        => /\ \A i \in 1..tasks[f].documents :
                [collection |-> collections[files[f].collection_id].name,
                 file |-> f, index |-> i] \in vectors
           /\ files[f].document_count = tasks[f].documents
           /\ collections[files[f].collection_id].name \in chroma

\* C4 witness: a completed file of the second collection with several chunks
C4_Witness ==
    \E f \in DOMAIN files :
        /\ files[f].status = COMPLETED
        /\ files[f].collection_id = 2
        /\ tasks[f].documents = MaxChunks
        /\ Cardinality({v \in vectors : v.file = f /\ v.collection = "kb2"}) = MaxChunks

\* C5: every registered file has one background task, which runs the ingestion
\* at most once; once the task has ended, and so once it has set the file to
\* FAILED, no step of the pipeline runs it again or changes the file's status.
C5_NoRetry ==
    [][/\ DOMAIN tasks' = DOMAIN files'
       /\ \A f \in DOMAIN files :
            /\ tasks'[f].runs <= 1
            /\ (files[f].status = FAILED \/ TaskEnded(f))
                 => /\ files'[f] = files[f]
                    /\ tasks'[f] = tasks[f]
                    /\ events'[f] = events[f]]_vars

\* C5 witness: a file set to FAILED by its task, which ran once
C5_Witness ==
    \E f \in DOMAIN files :
        /\ files[f].status = FAILED
        /\ tasks[f].pc = "done"
        /\ tasks[f].runs = 1

-----------------------------------------------------------------------------
(* Properties of the requests on a collection *)

\* the collection of this id is missing from the relational store or from the
\* vector store
MissingFromAStore(collection_id) ==
    \/ DBGetCollection(collection_id) = NoRow
    \/ DBGetCollection(collection_id).name \notin chroma

\* C11: ingest, add-documents and query requests proceed only when the
\* collection exists in both stores: for a collection missing from either one
\* the request is answered HTTP 404, and no file row is registered, no file is
\* saved, no task is scheduled and nothing is inserted.
C11_MissingCollection404 ==
    [][\A collection_id \in CollectionIds, plugin_name \in PluginInputs,
          paramsValid \in BOOLEAN, documents \in 0..MaxChunks, lookup \in LookupOutcomes :
            (/\ MissingFromAStore(collection_id)
             /\ \/ IngestFileToCollection(collection_id, plugin_name, paramsValid, lookup)
                \/ IngestUrlToCollection(collection_id, plugin_name, lookup)
                \/ IngestBaseToCollection(collection_id, plugin_name, lookup)
                \/ AddDocuments(collection_id, documents, lookup)
                \/ QueryCollection(collection_id, lookup))
            => /\ resp'.code = 404
               /\ files' = files
               /\ uploads' = uploads
               /\ tasks' = tasks
               /\ vectors' = vectors]_vars

C13_AnswerBeforeTask ==
    [][\A collection_id \in CollectionIds, plugin_name \in PluginInputs,
          paramsValid \in BOOLEAN, lookup \in LookupOutcomes :
            (/\ resp'.code = 200
             /\ \/ IngestFileToCollection(collection_id, plugin_name, paramsValid, lookup)
                \/ IngestUrlToCollection(collection_id, plugin_name, lookup)
                \/ IngestBaseToCollection(collection_id, plugin_name, lookup))
            => /\ resp'.status = "processing"
               /\ resp'.documents_added = 0
               /\ resp'.success
               /\ Len(files') = Len(files) + 1
               /\ resp'.file_registry_id = Len(files')
               /\ files'[resp'.file_registry_id].id = resp'.file_registry_id
               /\ files'[resp'.file_registry_id].collection_id = collection_id
               /\ files'[resp'.file_registry_id].status = PROCESSING
               /\ tasks'[resp'.file_registry_id].pc = "scheduled"
               /\ tasks'[resp'.file_registry_id].runs = 0
               /\ vectors' = vectors]_vars

\* C13 witness: the answer of an accepted ingest-url request, its task not yet run
C13_Witness ==
    /\ resp.op = "ingest_url"
    /\ resp.code = 200
    /\ resp.status = "processing"
    /\ resp.file_registry_id = Len(files)
    /\ files[resp.file_registry_id].status = PROCESSING
    /\ tasks[resp.file_registry_id].pc = "scheduled"

-----------------------------------------------------------------------------
(* Properties of the collection service *)

\* the embeddings_model values the router hands to the service
ResolvedModels ==
    {NoModel} \cup {ResolveEmbeddings(m, e) : m \in EmbeddingsInputs \ {NoModel},
                                              e \in EnvEndpoints \ {None}}

\* C6: create_collection with a name that an existing collection already has
\* answers HTTP 409, leaves the collections of the relational store and of the
\* vector store as they were, and attempts no embeddings validation.
C6_DuplicateNameConflict ==
    [][\A name \in Names, owner \in Owners, visibility \in VisibilityInputs,
          embeddings_model \in ResolvedModels :
            (/\ DBGetCollectionByName(name) # NoRow
             /\ ServiceCreateCollection(name, owner, visibility, embeddings_model))
            => /\ resp'.code = 409
               /\ collections' = collections
               /\ chroma' = chroma
               /\ ~resp'.validated]_vars

\* C6 witness: a create request was refused as a duplicate while collections exist
C6_Witness ==
    /\ resp.op = "create_collection"
    /\ resp.code = 409
    /\ Len(collections) > 0

\* C7 as stated: create_collection with a visibility that is neither
\* 'private' nor 'public' answers HTTP 400 and creates nothing.
C7_InvalidVisibilityAlways400 ==
    [][\A name \in Names, owner \in Owners, visibility \in VisibilityInputs \ Visibility,
          embeddings_model \in ResolvedModels :
            ServiceCreateCollection(name, owner, visibility, embeddings_model)
            => /\ resp'.code = 400
               /\ collections' = collections
               /\ chroma' = chroma]_vars

\* C7 amended: create_collection with a visibility that is neither 'private'
\* nor 'public' creates nothing; it answers HTTP 400 when no existing
\* collection has the name, and HTTP 409 when one has (the name is checked first).
C7_InvalidVisibilityRefused ==
    [][\A name \in Names, owner \in Owners, visibility \in VisibilityInputs \ Visibility,
          embeddings_model \in ResolvedModels :
            ServiceCreateCollection(name, owner, visibility, embeddings_model)
            => /\ resp'.code = IF \E i \in DOMAIN collections : collections[i].name = name
                               THEN 409 ELSE 400
               /\ collections' = collections
               /\ chroma' = chroma]_vars

\* C7 witness: a create request was refused for its visibility
C7_Witness ==
    /\ resp.op = "create_collection"
    /\ resp.code = 400
    /\ resp.detail = "invalid_visibility"

\* C8: get_collection(id) answers with the stored collection of that id when
\* there is one and with HTTP 404 when there is none (ids below 1 and above
\* every created id included), and never changes the collections.
C8_GetCollection ==
    [][\A collection_id \in 0..(MaxCollections + 1) :
            GetCollection(collection_id)
            => /\ IF collection_id \in 1..Len(collections)
                  THEN /\ resp'.code = 200
                       /\ resp'.collection = collections[collection_id]
                       /\ resp'.collection.id = collection_id
                  ELSE resp'.code = 404
               /\ collections' = collections
               /\ chroma' = chroma]_vars

\* C8 witness: a stored collection was returned and, before it, a lookup failed
C8_Witness ==
    /\ resp.op = "get_collection"
    /\ resp.code = 200
    /\ resp.collection.id = Len(collections)
    /\ Len(collections) = MaxCollections

\* the rows a listing's filters select, in id order
C9_Matching(owner, visibility) ==
    SelectSeq(collections,
              LAMBDA c : /\ (owner = None \/ c.owner = owner)
                         /\ (visibility = None \/ c.visibility = visibility))

\* C9: list_collections answers with total = the number of stored collections
\* that match the owner and visibility filters, whatever skip and limit are, and
\* with items = the page (skip, limit) of those collections; on an empty store
\* total is 0 and items is empty.
C9_ListCollections ==
    [][\A skip \in 0..MaxCollections, limit \in 1..MaxCollections,
          owner \in Owners \cup {None}, visibility \in Visibility \cup {None} :
            ListCollections(skip, limit, owner, visibility)
            => LET matching == C9_Matching(owner, visibility)
               IN  /\ resp'.code = 200
                   /\ resp'.total = Len(matching)
                   /\ Len(resp'.items) = IF Len(matching) <= skip THEN 0
                                         ELSE Min(limit, Len(matching) - skip)
                   /\ \A k \in 1..Len(resp'.items) : resp'.items[k] = matching[skip + k]
                   /\ (collections = <<>> => resp'.total = 0 /\ resp'.items = <<>>)
                   /\ collections' = collections]_vars

\* C9 witness: a listing whose page is shorter than its total
C9_Witness ==
    /\ resp.op = "list_collections"
    /\ resp.code = 200
    /\ resp.total = 2
    /\ Len(resp.items) = 1
    /\ resp.items[1].id = 2

\* C10: create_collection with no embeddings_model calls no embedding function;
\* when the request passes the name and visibility checks and the collection is
\* stored with its ChromaDB UUID it answers 201 with the created collection,
\* whose embeddings configuration is empty.
C10_CreateWithoutEmbeddings ==
    [][\A name \in Names, owner \in Owners, visibility \in VisibilityInputs :
            CreateCollection(name, owner, visibility, NoModel, None)
            => /\ ~resp'.validated
               /\ (collections' # collections
                     => collections'[Len(collections')].embeddings_model = EmptyConfig)
               /\ (/\ collections' # collections
                   /\ collections'[Len(collections')].chromadb_uuid)
                     => /\ resp'.code = 201
                        /\ resp'.collection = collections'[Len(collections')]
                        /\ resp'.collection.name = name
                        /\ resp'.collection.embeddings_model = EmptyConfig
                        /\ name \in chroma']_vars

\* C10 witness: a collection without embeddings configuration was created and returned
C10_Witness ==
    /\ resp.op = "create_collection"
    /\ resp.code = 201
    /\ ~resp.validated
    /\ resp.collection.embeddings_model = EmptyConfig
    /\ resp.collection = collections[Len(collections)]

\* C17: when create_collection created the collection in the relational store
\* but its ChromaDB UUID was not stored, the request is answered HTTP 500.
C17_UuidNotStored500 ==
    [][\A name \in Names, owner \in Owners, visibility \in VisibilityInputs,
          embeddings_model \in ResolvedModels :
            (/\ ServiceCreateCollection(name, owner, visibility, embeddings_model)
             /\ collections' # collections
             /\ ~collections'[Len(collections')].chromadb_uuid)
            => resp'.code = 500]_vars

\* C18: when an embeddings_model is given, create_collection validates it
\* before any collection is created: a request whose validation raises is
\* answered HTTP 400 and creates no collection in either store, and every
\* collection created with an embeddings_model was created after its validation.
C18_EmbeddingsValidatedFirst ==
    [][\A name \in Names, owner \in Owners, visibility \in Visibility,
          embeddings_model \in ResolvedModels \ {NoModel} :
            /\ TryCreate(name, owner, visibility, embeddings_model, FALSE)
                 => /\ resp'.code = 400
                    /\ resp'.validated
                    /\ collections' = collections
                    /\ chroma' = chroma
            /\ (/\ ServiceCreateCollection(name, owner, visibility, embeddings_model)
                /\ collections' # collections)
                 => resp'.validated]_vars

\* C18 witness: a request refused by the embeddings validation while a
\* collection with a validated embeddings_model is stored
C18_Witness ==
    /\ resp.op = "create_collection"
    /\ resp.code = 400
    /\ resp.detail = "validation_failed"
    /\ \E i \in DOMAIN collections : collections[i].embeddings_model # EmptyConfig

-----------------------------------------------------------------------------
(* Properties of the files router *)

\* C14: PUT /files/{file_id}/status with a status that names a FileStatus
\* member in any letter case, for a registered file, sets that file's status
\* to the member, returns the updated registry entry and leaves the status of
\* every other file as it was.
C14_StatusSetByMemberName ==
    [][\A file_id \in FileIds, status \in StatusTexts :
            (/\ RouterUpdateFileStatus(file_id, status)
             /\ file_id \in DOMAIN files
             /\ Upper[status] \in DOMAIN FileStatusMembers)
            => /\ resp'.code = 200
               /\ files'[file_id].status = FileStatusMembers[Upper[status]]
               /\ resp'.file = files'[file_id]
               /\ \A g \in DOMAIN files \ {file_id} : files'[g].status = files[g].status]_vars

\* C15: a file status update whose status is no FileStatus value is answered
\* HTTP 400, an update for a file id that is not registered is answered
\* HTTP 404, and in both cases no file registry row changes.
C15_InvalidStatus400UnknownFile404 ==
    [][\A file_id \in FileIds, status \in StatusTexts :
            RouterUpdateFileStatus(file_id, status)
            => /\ Upper[status] \notin DOMAIN FileStatusMembers
                    => (resp'.code = 400 /\ files' = files)
               /\ (Upper[status] \in DOMAIN FileStatusMembers /\ file_id \notin DOMAIN files)
                    => (resp'.code = 404 /\ files' = files)]_vars

\* C16: listing the files of a collection returns exactly the registry rows
\* of that collection (with the given status when a status filter is given),
\* is answered HTTP 404 when the collection does not exist and HTTP 400 when
\* the status filter is no FileStatus value, and never changes a row.
C16_ListFilesOfCollection ==
    [][\A collection_id \in CollectionIds, status \in StatusTexts \cup {None} :
            ListFilesInCollection(collection_id, status)
            => /\ files' = files
               /\ IF DBGetCollection(collection_id) = NoRow
                  THEN resp'.code = 404
                  ELSE IF status # None /\ status \notin FileStatus
                  THEN resp'.code = 400
                  ELSE /\ resp'.code = 200
                       /\ {resp'.items[i] : i \in DOMAIN resp'.items}
                            = {files[f] : f \in {g \in DOMAIN files :
                                    /\ files[g].collection_id = collection_id
                                    /\ (status # None => files[g].status = status)}}
                       /\ Len(resp'.items) = Cardinality({resp'.items[i] : i \in DOMAIN resp'.items})]_vars

\* the chunks of two answers of the store are the same, whatever their order
SameChunks(r1, r2) ==
    /\ Len(r1) = Len(r2)
    /\ \A c \in {r1[i] : i \in DOMAIN r1} \cup {r2[i] : i \in DOMAIN r2} :
            Cardinality({i \in DOMAIN r1 : r1[i] = c}) = Cardinality({i \in DOMAIN r2 : r2[i] = c})

\* C20: get_file_content returns the file's chunks joined in ascending
\* chunk_index order with a newline character between them and chunk_count =
\* the number of chunks that have metadata; the content is the same for every
\* order in which the store returns the chunks; the request is answered
\* HTTP 404 when the file id is not registered or no chunk is found.
C20_FileContentInChunkOrder ==
    [][\A file_id \in FileIds, results \in StoreResults :
            (\/ GetFileContent(file_id, results)
             \/ FileServiceGetFileContent("FileService.get_file_content", file_id, results))
            => IF file_id \notin DOMAIN files \/ Len(results) = 0
               THEN resp'.code = 404
               ELSE /\ resp'.code = 200
                    /\ resp'.chunk_count = Cardinality(ChunkDocs(results))
                    /\ resp'.content = Join(Newline, SortedDocs(ChunkDocs(results)))
                    /\ \A other \in StoreResults :
                            SameChunks(results, other)
                            => resp'.content = Join(Newline, SortedDocs(ChunkDocs(other)))]_vars

-----------------------------------------------------------------------------
(* Properties of the plugins *)

\* C21: simple_query returns at most top_k results, each with similarity =
\* 1 - distance; the results are exactly the hits of the vector store whose
\* similarity is >= threshold, in the order the store returned them; with the
\* defaults (top_k 5, threshold 0.0) no hit with non-negative similarity is
\* dropped.  (resp.hits is the store's answer to the call, resp.top_k and
\* resp.threshold are the call's parameters.)
C21_SimpleQueryResults ==
    (resp.op = "simple_query" /\ resp.status = "returned")
    => LET out == resp.items
           results == resp.hits
           kept == {i \in DOMAIN results : Unit - results[i].distance >= resp.threshold}
       IN  /\ Len(out) <= resp.top_k
           /\ Len(out) = Cardinality(kept)
           /\ \A j \in DOMAIN out :
                 /\ out[j].data \in kept
                 /\ out[j].similarity = Unit - results[out[j].data].distance
           /\ \A j, k \in DOMAIN out : j < k => out[j].data < out[k].data
           /\ (resp.top_k = DefaultTopK /\ resp.threshold = DefaultThreshold)
                 => \A i \in DOMAIN results :
                       Unit - results[i].distance >= 0
                       => \E j \in DOMAIN out : out[j].data = i

\* C21 witness: a query with the defaults got four hits from the store,
\* returned the second and the fourth (similarity 1.0 and 0.0) and dropped
\* the two with negative similarity
C21_Witness ==
    /\ resp.op = "simple_query"
    /\ resp.status = "returned"
    /\ resp.top_k = DefaultTopK
    /\ resp.threshold = DefaultThreshold
    /\ Len(resp.hits) = 4
    /\ Len(resp.items) = 2
    /\ resp.items[1].data = 2
    /\ resp.items[2].data = 4
    /\ resp.items[1].similarity = Unit
    /\ resp.items[2].similarity = 0

\* the chunks the results before result i produced
RECURSIVE ChunksBefore(_, _)
ChunksBefore(data, i) ==
    IF i <= 1 THEN 0
    ELSE ChunksBefore(data, i - 1)
            + (IF data[i - 1].pieces > 0 THEN data[i - 1].pieces ELSE 0)

\* the k-th smallest member of a set of positions
Nth(positions, k) ==
    CHOOSE p \in positions : Cardinality({q \in positions : q < p}) = k - 1

-----------------------------------------------------------------------------
(* Properties of the file status across the two stores *)

\* C23: a file whose status is FAILED has no chunk in the vector store that
\* its own ingestion task inserted.
C23_FailedHasNoChunks ==
    \A f \in DOMAIN files :
        files[f].status = FAILED => ~\E v \in vectors : v.file = f

====
